---- MODULE Spec2Model ----
(***************************************************************************)
(* The CAS gRPC adapter of cas/grpc_service/cas_server.rs: CasServer with  *)
(* its four operations (find_missing_blobs, batch_update_blobs,            *)
(* batch_read_blobs, get_tree) and the error translator result_to_status.  *)
(* The handlers' loops advance one iteration per step (each iteration      *)
(* holds one awaited store call).  Spec runs one request at a time,        *)
(* SpecTranslator applies result_to_status to every error category, and    *)
(* SpecConc interleaves the handlers of several clients on one store.      *)
(***************************************************************************)
EXTENDS Integers, Sequences, FiniteSets, TLC

(* ---------------------------------------------------------------- bounds *)
\* longest BatchUpdateBlobsRequest.requests the model submits
MaxBatch == 2
\* longest FindMissingBlobsRequest.blob_digests the model submits
MaxDigests == 2

(* ---------------------------------------------------------------- inputs *)
\* Digest.hash values; the strings differ in length because
\* find_missing_blobs passes hash.len() to the store.
Hashes == {"bb", "ccc"}
\* Digest.size_bytes values (i64): a negative one, the length of one of the
\* hashes (and of two payloads), and one that matches no payload.
SizeValues == {-1, 2, 5}
\* request.data values (byte vectors): two of the same length, so that a
\* blob can be overwritten with other content, and a longer one
Payloads == {<<1, 2>>, <<3, 4>>, <<7, 8, 9>>}
\* io::ErrorKind values a store call fails with in the model
StoreFailKinds == {"TimedOut", "BrokenPipe"}

\* Option<T> is a sequence of length at most one.
None == <<>>
Some(v) == <<v>>
IsSome(o) == Len(o) = 1
Unwrap(o) == o[1]

Digest(h, s) == [hash |-> h, size_bytes |-> s]
Digests == {Digest(h, s) : h \in Hashes, s \in SizeValues}
OptDigests == {None} \cup {Some(d) : d \in Digests}
\* batch_update_blobs_request::Request
UpdateRequests == [digest : OptDigests, data : Payloads]

RECURSIVE SeqsUpTo(_, _)
SeqsUpTo(S, n) ==
    IF n = 0 THEN {<<>>}
    ELSE LET shorter == SeqsUpTo(S, n - 1)
         IN  shorter \cup {Append(q, x) : q \in {r \in shorter : Len(r) = n - 1}, x \in S}

(* ------------------------------------------------------ error translator *)
\* io::Error built by the make_err! macro (crate `macros`).
make_err(msg) == [kind |-> "InvalidInput", msg |-> msg]

\* io::Error returned by a failing store call
StoreError(kind) == [kind |-> kind, msg |-> <<"store failure">>]

\* kind_to_code with the InvalidInput arm lost to the default arm
kind_to_codeInvalidInputInternal(kind) ==
    CASE kind = "NotFound" -> "NotFound"
      [] kind = "PermissionDenied" -> "PermissionDenied"
      [] kind \in {"ConnectionRefused", "ConnectionReset", "ConnectionAborted"} -> "Unavailable"
      [] kind = "AlreadyExists" -> "AlreadyExists"
      [] kind = "InvalidData" -> "InvalidArgument"
      [] kind = "TimedOut" -> "DeadlineExceeded"
      [] kind = "Interrupted" -> "Aborted"
      [] OTHER -> "Internal"

kind_to_code(kind) ==
    CASE kind = "NotFound" -> "NotFound"
      [] kind = "PermissionDenied" -> "PermissionDenied"
      [] kind = "ConnectionRefused" -> "Unavailable"
      [] kind = "ConnectionReset" -> "Unavailable"
      [] kind = "ConnectionAborted" -> "Unavailable"
      [] kind = "NotConnected" -> "Internal"
      [] kind = "AddrInUse" -> "Internal"
      [] kind = "AddrNotAvailable" -> "Internal"
      [] kind = "BrokenPipe" -> "Internal"
      [] kind = "AlreadyExists" -> "AlreadyExists"
      [] kind = "WouldBlock" -> "Internal"
      [] kind = "InvalidInput" -> "InvalidArgument"
      [] kind = "InvalidData" -> "InvalidArgument"
      [] kind = "TimedOut" -> "DeadlineExceeded"
      [] kind = "WriteZero" -> "Internal"
      [] kind = "Interrupted" -> "Aborted"
      [] kind = "Other" -> "Internal"
      [] kind = "UnexpectedEof" -> "Internal"
      [] OTHER -> "Internal"

\* `Code::X as i32`: the gRPC status code numbers
CodeAsI32(code) ==
    CASE code = "Ok" -> 0
      [] code = "InvalidArgument" -> 3
      [] code = "DeadlineExceeded" -> 4
      [] code = "NotFound" -> 5
      [] code = "AlreadyExists" -> 6
      [] code = "PermissionDenied" -> 7
      [] code = "Aborted" -> 10
      [] code = "Unimplemented" -> 12
      [] code = "Internal" -> 13
      [] code = "Unavailable" -> 14

\* result_to_status formatting the result itself into the message
result_to_statusDebugMessage(result) ==
    IF ~IsSome(result)
    THEN [code |-> CodeAsI32("Ok"), message |-> <<"Ok(())">>, details |-> <<>>]
    ELSE [code |-> CodeAsI32(kind_to_code(Unwrap(result).kind)),
          message |-> <<"Error: ", Unwrap(result).kind, Unwrap(result).msg>>,
          details |-> <<>>]

\* result: Option<Error>, None standing for Ok(())
result_to_status(result) ==
    IF ~IsSome(result)
    THEN [code |-> CodeAsI32("Ok"), message |-> <<>>, details |-> <<>>]
    ELSE [code |-> CodeAsI32(kind_to_code(Unwrap(result).kind)),
          message |-> <<"Error: ", Unwrap(result).kind, Unwrap(result).msg>>,
          details |-> <<>>]

(* ------------------------------------------------------------- the Store *)
\* The Store collaborator behind `Box<dyn Store>`: a map from the key
\* (hash, size) to the blob written under it, without eviction.
StoreKey(hash, size) == <<hash, size>>

\* store.has(hash, size): Ok(bool) when the store answers
StoreHas(st, hash, size) == StoreKey(hash, size) \in DOMAIN st

\* store.update(hash, size, reader) succeeding: the blob is stored whole.
\* A failing update leaves the store as it was (all-or-nothing).
StoreUpdate(st, hash, size, data) ==
    [k \in DOMAIN st \cup {StoreKey(hash, size)} |->
        IF k = StoreKey(hash, size) THEN data ELSE st[k]]

\* the answers an update call can give: Ok(()) or Err(io::Error)
UpdateAnswers == {None} \cup {Some(StoreError(k)) : k \in StoreFailKinds}

(* ------------------------------------------------------------- the state *)
VARIABLES
    store,                 \* CasServer.store: the blobs the Store holds
    uploaded,              \* history: keys of every update the Store answered Ok
    method,                \* the RPC method of the call in flight
    pc,                    \* where the call in flight is: in a loop or returned
    requests,              \* batch_request.requests of the call in flight
    blob_digests,          \* the digests of the request of the call in flight
    idx,                   \* position of the for loop (1-based)
    batch_response,        \* batch_response.responses built so far
    missing_blob_digests,  \* response.missing_blob_digests built so far
    rpc_result,            \* what the finished call returned
    store_calls,           \* history: the store calls of the call in flight
    prev_missing,          \* history: the list the same request got just before
    tr_result,             \* result_to_status taken alone: its argument
    tr_status,             \* result_to_status taken alone: the status it made
    handlers,              \* concurrent requests: the state of each handler
    acked                  \* concurrent requests: keys answered ok to a client

\* the variables of the one call in flight
callvars == <<method, pc, requests, blob_digests, idx, batch_response,
              missing_blob_digests, rpc_result, store_calls, prev_missing>>
\* the variables of the translator taken alone
trvars == <<tr_result, tr_status>>
\* the variables of the concurrent requests
concvars == <<handlers, acked>>

vars == <<store, uploaded, callvars, trvars, concvars>>

\* One entry of store_calls: the operation, the loop position that issued
\* it, its arguments and the store's answer (err = None for Ok; present is
\* the bool a has call answered).
StoreCall(op, item, hash, size, data, err, present) ==
    [op |-> op, item |-> item, hash |-> hash, size |-> size, data |-> data,
     err |-> err, present |-> present]

Pending == [tag |-> "Pending", body |-> <<>>]
\* Ok(Response::new(body))
OkResponse(body) == [tag |-> "Ok", body |-> body]
\* Err(status)
ErrStatus(status) == [tag |-> "Err", body |-> status]

\* tonic's `From<io::Error> for Status`, applied by the `?` of line 93:
\* the status is a function of the error; its code is the one tonic assigns
\* to the error's kind.
IoErrorToStatus(error) ==
    [code |-> <<"From<io::Error>", error.kind>>, message |-> error.msg]

\* the stubs' status made with Status::internal
UnimplementedAsInternal(function_name) ==
    [code |-> <<"Internal">>,
     message |-> <<function_name, " not yet implemented">>]

\* Status::unimplemented(output)
Unimplemented(function_name) ==
    [code |-> <<"Unimplemented">>,
     message |-> <<function_name, " not yet implemented">>]

\* usize::try_from(i64) succeeds exactly on the non-negative values (usize
\* is 64 bits wide on the targets the server builds for).
UsizeTryFromOk(v) == v >= 0

Init ==
    /\ store = <<>>
    /\ uploaded = {}
    /\ method = "none"
    /\ pc = "idle"
    /\ requests = <<>>
    /\ blob_digests = <<>>
    /\ idx = 1
    /\ batch_response = <<>>
    /\ missing_blob_digests = <<>>
    /\ rpc_result = Pending
    /\ store_calls = <<>>
    /\ prev_missing = None
    /\ tr_result = None
    /\ tr_status = None
    /\ handlers = <<>>
    /\ acked = {}

\* A new request is accepted when none is in flight.
CanCall == pc = "idle"

(* ---------------------------------------------------- batch_update_blobs *)
\* ValidationError without the payload length check of lines 117-122
ValidationErrorNoSizeCheck(request) ==
    IF ~IsSome(request.digest)
    THEN Some(make_err(<<"Digest not found in request">>))
    ELSE IF ~UsizeTryFromOk(Unwrap(request.digest).size_bytes)
    THEN Some(make_err(<<"Digest size_bytes was not convertable to usize">>))
    ELSE None

\* ValidationError with `size_bytes > request.data.len()` for `!=`
ValidationErrorShortPayloadOnly(request) ==
    IF ~IsSome(request.digest)
    THEN Some(make_err(<<"Digest not found in request">>))
    ELSE LET digest == Unwrap(request.digest)
         IN  IF ~UsizeTryFromOk(digest.size_bytes)
             THEN Some(make_err(<<"Digest size_bytes was not convertable to usize">>))
             ELSE IF digest.size_bytes > Len(request.data)
             THEN Some(make_err(<<"Digest for upload had mismatching sizes, digest said {} data  said {}",
                                  digest.size_bytes, Len(request.data)>>))
             ELSE None

\* ValidationError with `digest.size_bytes as usize` for usize::try_from
ValidationErrorCastSize(request) ==
    IF ~IsSome(request.digest)
    THEN Some(make_err(<<"Digest not found in request">>))
    ELSE LET digest == Unwrap(request.digest)
         IN  IF digest.size_bytes # Len(request.data)
             THEN Some(make_err(<<"Digest for upload had mismatching sizes, digest said {} data  said {}",
                                  digest.size_bytes, Len(request.data)>>))
             ELSE None

\* lines 111-122: the checks of the try block before the store is called;
\* Some(error) when one of them fails, None when the item passes.
ValidationError(request) ==
    IF ~IsSome(request.digest)
    THEN Some(make_err(<<"Digest not found in request">>))
    ELSE LET digest == Unwrap(request.digest)
         IN  IF ~UsizeTryFromOk(digest.size_bytes)
             THEN Some(make_err(<<"Digest size_bytes was not convertable to usize">>))
             ELSE IF digest.size_bytes # Len(request.data)
             THEN Some(make_err(<<"Digest for upload had mismatching sizes, digest said {} data  said {}",
                                  digest.size_bytes, Len(request.data)>>))
             ELSE None

\* UpdateArgs with the size find_missing_blobs passes, digest.hash.len()
UpdateArgsHashLen(request) ==
    [hash |-> Unwrap(request.digest).hash,
     size |-> Len(Unwrap(request.digest).hash),
     data |-> request.data]

\* lines 123-128: the arguments of self.store.update for a validated item
UpdateArgs(request) ==
    [hash |-> Unwrap(request.digest).hash,
     size |-> Unwrap(request.digest).size_bytes,
     data |-> request.data]

\* ItemResponse echoing the digest of the successful items only
ItemResponseNoEchoOnError(orig_digest, result_status) ==
    [digest |-> IF IsSome(result_status) THEN None ELSE orig_digest,
     status |-> result_to_status(result_status)]

\* lines 131-134: the response record of one item
ItemResponse(orig_digest, result_status) ==
    [digest |-> orig_digest, status |-> result_to_status(result_status)]

\* NextItem with the item's error leaving the loop (a `?` outside the try block)
NextItemAbortOnError(i, result_status) ==
    IF IsSome(result_status) THEN Len(requests) + 1 ELSE i + 1

\* line 108: the for loop goes on to the next item whatever the result was
NextItem(i, result_status) == i + 1

\* the return value with an item's failure turned into the call's failure
BatchUpdateReturnErrOnFailure(responses) ==
    IF \E i \in 1..Len(responses) : responses[i].status.code # 0
    THEN ErrStatus([code |-> <<"Internal">>, message |-> <<"batch failed">>])
    ELSE OkResponse([responses |-> responses])

\* line 137: the call's return value
BatchUpdateReturnValue(responses) == OkResponse([responses |-> responses])

BatchUpdateBlobsCall ==
    /\ CanCall
    /\ \E reqs \in SeqsUpTo(UpdateRequests, MaxBatch) :
          requests' = reqs
    /\ method' = "batch_update_blobs"
    /\ pc' = "loop"
    /\ idx' = 1
    /\ batch_response' = <<>>
    /\ blob_digests' = <<>>
    /\ missing_blob_digests' = <<>>
    /\ rpc_result' = Pending
    /\ store_calls' = <<>>
    /\ UNCHANGED <<store, uploaded>>
    /\ UNCHANGED <<prev_missing, trvars, concvars>>

\* One iteration of the loop of lines 108-136 for an item the checks reject.
BatchUpdateItemInvalid ==
    /\ method = "batch_update_blobs"
    /\ pc = "loop"
    /\ idx <= Len(requests)
    /\ LET request == requests[idx]
           orig_digest == request.digest
           result_status == ValidationError(request)
       IN  /\ IsSome(result_status)
           /\ batch_response' = Append(batch_response, ItemResponse(orig_digest, result_status))
           /\ idx' = NextItem(idx, result_status)
    /\ UNCHANGED <<store, uploaded, method, pc, requests, blob_digests,
                   missing_blob_digests, rpc_result, store_calls>>
    /\ UNCHANGED <<prev_missing, trvars, concvars>>

\* BatchUpdateItemStore sparing the store a blob it already holds: the
\* item is answered ok without an update call
BatchUpdateItemStoreSkipsHeld ==
    /\ method = "batch_update_blobs"
    /\ pc = "loop"
    /\ idx <= Len(requests)
    /\ LET request == requests[idx]
           orig_digest == request.digest
       IN  /\ ~IsSome(ValidationError(request))
           /\ \E answer \in UpdateAnswers :
                LET args == UpdateArgs(request)
                    held == StoreHas(store, args.hash, args.size)
                    result_status == IF held THEN None ELSE answer
                IN  /\ store_calls' =
                          IF held THEN store_calls
                          ELSE Append(store_calls,
                                  StoreCall("update", idx, args.hash, args.size,
                                            args.data, answer, FALSE))
                    /\ IF held \/ IsSome(answer)
                       THEN UNCHANGED <<store, uploaded>>
                       ELSE /\ store' = StoreUpdate(store, args.hash, args.size, args.data)
                            /\ uploaded' = uploaded \cup {StoreKey(args.hash, args.size)}
                    /\ batch_response' = Append(batch_response, ItemResponse(orig_digest, result_status))
                    /\ idx' = NextItem(idx, result_status)
    /\ UNCHANGED <<method, pc, requests, blob_digests, missing_blob_digests, rpc_result>>
    /\ UNCHANGED <<prev_missing, trvars, concvars>>

\* One iteration of the loop of lines 108-136 for an item that passes the
\* checks: the store is asked to write it and answers Ok or Err.
BatchUpdateItemStore ==
    /\ method = "batch_update_blobs"
    /\ pc = "loop"
    /\ idx <= Len(requests)
    /\ LET request == requests[idx]
           orig_digest == request.digest
       IN  /\ ~IsSome(ValidationError(request))
           /\ \E answer \in UpdateAnswers :
                LET args == UpdateArgs(request)
                    result_status == answer
                IN  /\ store_calls' = Append(store_calls,
                          StoreCall("update", idx, args.hash, args.size,
                                    args.data, answer, FALSE))
                    /\ IF IsSome(answer)
                       THEN UNCHANGED <<store, uploaded>>
                       ELSE /\ store' = StoreUpdate(store, args.hash, args.size, args.data)
                            /\ uploaded' = uploaded \cup {StoreKey(args.hash, args.size)}
                    /\ batch_response' = Append(batch_response, ItemResponse(orig_digest, result_status))
                    /\ idx' = NextItem(idx, result_status)
    /\ UNCHANGED <<method, pc, requests, blob_digests, missing_blob_digests, rpc_result>>
    /\ UNCHANGED <<prev_missing, trvars, concvars>>

BatchUpdateReturn ==
    /\ method = "batch_update_blobs"
    /\ pc = "loop"
    /\ idx > Len(requests)
    /\ rpc_result' = BatchUpdateReturnValue(batch_response)
    /\ pc' = "returned"
    /\ UNCHANGED <<store, uploaded, method, requests, blob_digests, idx, batch_response,
                   missing_blob_digests, store_calls>>
    /\ UNCHANGED <<prev_missing, trvars, concvars>>

(* ---------------------------------------------------- find_missing_blobs *)
\* line 93: the arguments of self.store.has for one digest; the size passed
\* is digest.hash.len(), the length of the hash string.
HasArgs(digest) == [hash |-> digest.hash, size |-> Len(digest.hash)]

\* the answers a has call can give besides Ok(bool): Err(io::Error)
HasFailures == {Some(StoreError(k)) : k \in StoreFailKinds}

\* PushIfMissing reporting each missing digest once
PushIfMissingDedup(missing, digest, present) ==
    IF ~present /\ \A i \in 1..Len(missing) : missing[i] # digest
    THEN Append(missing, digest)
    ELSE missing

\* lines 93-95: the digest is pushed when the store said it has no such blob
PushIfMissing(missing, digest, present) ==
    IF ~present THEN Append(missing, digest) ELSE missing

\* a failing check answered with the digests found missing so far
ReturnOnHasErrorPartial(error, missing) ==
    OkResponse([missing_blob_digests |-> missing])

\* line 93, `.await?`: a failing check returns from the handler with the
\* error converted to a Status; the response built so far is dropped.
ReturnOnHasError(error, missing) == ErrStatus(IoErrorToStatus(error))

\* line 97: the call's return value
FindMissingReturnValue(missing) == OkResponse([missing_blob_digests |-> missing])

FindMissingBlobsCall ==
    /\ CanCall
    /\ \E digests \in SeqsUpTo(Digests, MaxDigests) :
          blob_digests' = digests
    /\ method' = "find_missing_blobs"
    /\ pc' = "loop"
    /\ idx' = 1
    /\ missing_blob_digests' = <<>>
    /\ requests' = <<>>
    /\ batch_response' = <<>>
    /\ rpc_result' = Pending
    /\ store_calls' = <<>>
    /\ UNCHANGED <<store, uploaded>>
    /\ UNCHANGED <<prev_missing, trvars, concvars>>

\* The client sends the request it just got an answer to once more, with
\* no other call in between; prev_missing keeps the list of that answer.
FindMissingBlobsRepeat ==
    /\ method = "find_missing_blobs"
    /\ pc = "returned"
    /\ rpc_result.tag = "Ok"
    /\ prev_missing' = Some(rpc_result.body.missing_blob_digests)
    /\ pc' = "loop"
    /\ idx' = 1
    /\ missing_blob_digests' = <<>>
    /\ rpc_result' = Pending
    /\ store_calls' = <<>>
    /\ UNCHANGED <<store, uploaded, method, requests, blob_digests, batch_response>>
    /\ UNCHANGED <<trvars, concvars>>

\* FindMissingCheck remembering in the store what it has been asked about
FindMissingCheckMarksAsked ==
    /\ method = "find_missing_blobs"
    /\ pc = "loop"
    /\ idx <= Len(blob_digests)
    /\ LET digest == blob_digests[idx]
           args == HasArgs(digest)
           present == StoreHas(store, args.hash, args.size)
       IN  /\ store_calls' = Append(store_calls,
                  StoreCall("has", idx, args.hash, args.size, <<>>, None, present))
           /\ missing_blob_digests' = PushIfMissing(missing_blob_digests, digest, present)
           /\ store' = StoreUpdate(store, args.hash, args.size, <<>>)
           /\ idx' = idx + 1
    /\ UNCHANGED <<uploaded, method, pc, requests, blob_digests, batch_response,
                   rpc_result>>
    /\ UNCHANGED <<prev_missing, trvars, concvars>>

\* One iteration of the loop of lines 91-96 in which the store answers.
FindMissingCheck ==
    /\ method = "find_missing_blobs"
    /\ pc = "loop"
    /\ idx <= Len(blob_digests)
    /\ LET digest == blob_digests[idx]
           args == HasArgs(digest)
           present == StoreHas(store, args.hash, args.size)
       IN  /\ store_calls' = Append(store_calls,
                  StoreCall("has", idx, args.hash, args.size, <<>>, None, present))
           /\ missing_blob_digests' = PushIfMissing(missing_blob_digests, digest, present)
           /\ idx' = idx + 1
    /\ UNCHANGED <<store, uploaded, method, pc, requests, blob_digests, batch_response,
                   rpc_result>>
    /\ UNCHANGED <<prev_missing, trvars, concvars>>

\* FindMissingCheckFails taking a failed check for "missing" and going on
FindMissingCheckFailsGoesOn ==
    /\ method = "find_missing_blobs"
    /\ pc = "loop"
    /\ idx <= Len(blob_digests)
    /\ \E failure \in HasFailures :
         LET args == HasArgs(blob_digests[idx])
         IN  store_calls' = Append(store_calls,
                 StoreCall("has", idx, args.hash, args.size, <<>>, failure, FALSE))
    /\ missing_blob_digests' = Append(missing_blob_digests, blob_digests[idx])
    /\ idx' = idx + 1
    /\ UNCHANGED <<store, uploaded, method, pc, requests, blob_digests, batch_response,
                   rpc_result>>
    /\ UNCHANGED <<prev_missing, trvars, concvars>>

\* One iteration of the loop of lines 91-96 in which the check fails.
FindMissingCheckFails ==
    /\ method = "find_missing_blobs"
    /\ pc = "loop"
    /\ idx <= Len(blob_digests)
    /\ \E failure \in HasFailures :
         LET args == HasArgs(blob_digests[idx])
         IN  /\ store_calls' = Append(store_calls,
                    StoreCall("has", idx, args.hash, args.size, <<>>, failure, FALSE))
             /\ rpc_result' = ReturnOnHasError(Unwrap(failure), missing_blob_digests)
    /\ pc' = "returned"
    /\ UNCHANGED <<store, uploaded, method, requests, blob_digests, idx, batch_response,
                   missing_blob_digests>>
    /\ UNCHANGED <<prev_missing, trvars, concvars>>

FindMissingReturn ==
    /\ method = "find_missing_blobs"
    /\ pc = "loop"
    /\ idx > Len(blob_digests)
    /\ rpc_result' = FindMissingReturnValue(missing_blob_digests)
    /\ pc' = "returned"
    /\ UNCHANGED <<store, uploaded, method, requests, blob_digests, idx, batch_response,
                   missing_blob_digests, store_calls>>
    /\ UNCHANGED <<prev_missing, trvars, concvars>>

(* ------------------------------------------- batch_read_blobs / get_tree *)
\* lines 140-148: the request (its digests) is ignored and the call fails
BatchReadBlobs ==
    /\ CanCall
    /\ \E digests \in SeqsUpTo(Digests, MaxDigests) :
          blob_digests' = digests
    /\ method' = "batch_read_blobs"
    /\ rpc_result' = ErrStatus(Unimplemented("batch_read_blobs"))
    /\ pc' = "returned"
    /\ requests' = <<>>
    /\ idx' = 1
    /\ batch_response' = <<>>
    /\ missing_blob_digests' = <<>>
    /\ store_calls' = <<>>
    /\ UNCHANGED <<store, uploaded>>
    /\ UNCHANGED <<prev_missing, trvars, concvars>>

\* lines 152-160: the request (its root_digest, an Option<Digest>) is
\* ignored and the call fails; no GetTreeStream is made.
GetTree ==
    /\ CanCall
    /\ \E root_digest \in OptDigests :
          blob_digests' = root_digest
    /\ method' = "get_tree"
    /\ rpc_result' = ErrStatus(Unimplemented("get_tree"))
    /\ pc' = "returned"
    /\ requests' = <<>>
    /\ idx' = 1
    /\ batch_response' = <<>>
    /\ missing_blob_digests' = <<>>
    /\ store_calls' = <<>>
    /\ UNCHANGED <<store, uploaded>>
    /\ UNCHANGED <<prev_missing, trvars, concvars>>

\* The finished call's result goes to the transport layer and the handler's
\* locals are dropped; the server (with its store) waits for the next call.
Respond ==
    /\ pc = "returned"
    /\ pc' = "idle"
    /\ method' = "none"
    /\ requests' = <<>>
    /\ blob_digests' = <<>>
    /\ idx' = 1
    /\ batch_response' = <<>>
    /\ missing_blob_digests' = <<>>
    /\ rpc_result' = Pending
    /\ store_calls' = <<>>
    /\ UNCHANGED <<store, uploaded>>
    /\ prev_missing' = None
    /\ UNCHANGED <<trvars, concvars>>

Next ==
    \/ BatchUpdateBlobsCall
    \/ BatchUpdateItemInvalid
    \/ BatchUpdateItemStore
    \/ BatchUpdateReturn
    \/ FindMissingBlobsCall
    \/ FindMissingBlobsRepeat
    \/ FindMissingCheck
    \/ FindMissingCheckFails
    \/ FindMissingReturn
    \/ BatchReadBlobs
    \/ GetTree
    \/ Respond

Spec == Init /\ [][Next]_vars

(* ------------------------------------------- result_to_status taken alone *)
\* io::ErrorKind: the kinds kind_to_code names, and one standing for every
\* kind it does not name (the `_` arm).
ErrorKinds ==
    {"NotFound", "PermissionDenied", "ConnectionRefused", "ConnectionReset",
     "ConnectionAborted", "NotConnected", "AddrInUse", "AddrNotAvailable",
     "BrokenPipe", "AlreadyExists", "WouldBlock", "InvalidInput", "InvalidData",
     "TimedOut", "WriteZero", "Interrupted", "Other", "UnexpectedEof",
     "Unrecognised"}

\* what an io::Error carries besides its kind
ErrorMessages == {<<"store failure">>, <<"Digest not found in request">>, <<>>}

\* the values of `result: Result<(), Error>`
TranslatorInputs ==
    {None} \cup {Some([kind |-> k, msg |-> m]) : k \in ErrorKinds, m \in ErrorMessages}

TrInit ==
    /\ store = <<>>
    /\ uploaded = {}
    /\ method = "none"
    /\ pc = "idle"
    /\ requests = <<>>
    /\ blob_digests = <<>>
    /\ idx = 1
    /\ batch_response = <<>>
    /\ missing_blob_digests = <<>>
    /\ rpc_result = Pending
    /\ store_calls = <<>>
    /\ prev_missing = None
    /\ handlers = <<>>
    /\ acked = {}
    /\ tr_result \in TranslatorInputs
    /\ tr_status = None

\* result_to_status(result) is called
Translate ==
    /\ tr_status = None
    /\ tr_status' = Some(result_to_status(tr_result))
    /\ UNCHANGED <<store, uploaded, callvars, concvars, tr_result>>

\* the next result to translate
TranslateNext ==
    /\ tr_status # None
    /\ tr_result' \in TranslatorInputs
    /\ tr_status' = None
    /\ UNCHANGED <<store, uploaded, callvars, concvars>>

TrNext ==
    \/ Translate
    \/ TranslateNext

SpecTranslator == TrInit /\ [][TrNext]_vars

(* ---------------------------------------------------- concurrent requests *)
\* The transport layer calls the handlers concurrently on the one CasServer:
\* each client has a handler of its own (its locals), all share `store`.
\* A loop iteration, with the store call it awaits, is one step: the store
\* answers each call atomically and the rest of the iteration touches only
\* the handler's locals.
Clients == {"c1", "c2"}

\* the upload items and the digests the concurrent clients send
ConcItems ==
    {[digest |-> Some(Digest("ccc", 2)), data |-> <<1, 2>>],
     [digest |-> Some(Digest("bb", 2)), data |-> <<3, 4>>],
     [digest |-> None, data |-> <<1, 2>>]}
ConcDigests == {Digest("ccc", 2), Digest("bb", 2)}
\* the answers an update call gives them, and the failures of a has call
ConcUpdateAnswers == {None, Some(StoreError("TimedOut"))}
ConcHasFailures == {Some(StoreError("TimedOut"))}

\* a handler that is not running
IdleHandler ==
    [method |-> "none", pc |-> "idle", requests |-> <<>>, blob_digests |-> <<>>,
     idx |-> 1, batch_response |-> <<>>, missing_blob_digests |-> <<>>,
     rpc_result |-> Pending, store_calls |-> <<>>, acked_before |-> {}]

ConcInit ==
    /\ store = <<>>
    /\ uploaded = {}
    /\ method = "none"
    /\ pc = "idle"
    /\ requests = <<>>
    /\ blob_digests = <<>>
    /\ idx = 1
    /\ batch_response = <<>>
    /\ missing_blob_digests = <<>>
    /\ rpc_result = Pending
    /\ store_calls = <<>>
    /\ prev_missing = None
    /\ tr_result = None
    /\ tr_status = None
    /\ handlers = [c \in Clients |-> IdleHandler]
    /\ acked = {}

ConcBatchUpdateBlobsCall(c) ==
    /\ handlers[c].pc = "idle"
    /\ \E reqs \in SeqsUpTo(ConcItems, MaxBatch) :
          handlers' = [handlers EXCEPT ![c] =
              [IdleHandler EXCEPT !.method = "batch_update_blobs", !.pc = "loop",
                                  !.requests = reqs, !.acked_before = acked]]
    /\ UNCHANGED <<store, uploaded, acked, callvars, trvars>>

\* one iteration of the loop of lines 108-136
ConcBatchUpdateItem(c) ==
    LET h == handlers[c]
    IN  /\ h.method = "batch_update_blobs"
        /\ h.pc = "loop"
        /\ h.idx <= Len(h.requests)
        /\ LET request == h.requests[h.idx]
               orig_digest == request.digest
               checked == ValidationError(request)
           IN  IF IsSome(checked)
               THEN /\ handlers' = [handlers EXCEPT ![c] =
                          [h EXCEPT !.batch_response =
                                        Append(@, ItemResponse(orig_digest, checked)),
                                    !.idx = h.idx + 1]]
                    /\ UNCHANGED <<store, uploaded>>
               ELSE \E answer \in ConcUpdateAnswers :
                      LET args == UpdateArgs(request)
                      IN  /\ IF IsSome(answer)
                             THEN UNCHANGED <<store, uploaded>>
                             ELSE /\ store' = StoreUpdate(store, args.hash, args.size, args.data)
                                  /\ uploaded' = uploaded \cup {StoreKey(args.hash, args.size)}
                          /\ handlers' = [handlers EXCEPT ![c] =
                                [h EXCEPT !.store_calls =
                                              Append(@, StoreCall("update", h.idx, args.hash,
                                                                  args.size, args.data, answer, FALSE)),
                                          !.batch_response =
                                              Append(@, ItemResponse(orig_digest, answer)),
                                          !.idx = h.idx + 1]]
        /\ UNCHANGED <<acked, callvars, trvars>>

\* the keys of the records of a response whose status is ok
OkKeys(responses) ==
    {StoreKey(Unwrap(responses[i].digest).hash, Unwrap(responses[i].digest).size_bytes) :
        i \in {j \in 1..Len(responses) : responses[j].status.code = 0}}

\* line 137: the response, ok records included, reaches the client
ConcBatchUpdateReturn(c) ==
    LET h == handlers[c]
    IN  /\ h.method = "batch_update_blobs"
        /\ h.pc = "loop"
        /\ h.idx > Len(h.requests)
        /\ handlers' = [handlers EXCEPT ![c] =
              [h EXCEPT !.pc = "returned",
                        !.rpc_result = BatchUpdateReturnValue(h.batch_response)]]
        /\ acked' = acked \cup OkKeys(h.batch_response)
        /\ UNCHANGED <<store, uploaded, callvars, trvars>>

\* a FindMissingBlobs call starts; acked_before keeps what had been
\* answered ok to any client by then
ConcFindMissingBlobsCall(c) ==
    /\ handlers[c].pc = "idle"
    /\ \E digests \in SeqsUpTo(ConcDigests, MaxDigests) :
          handlers' = [handlers EXCEPT ![c] =
              [IdleHandler EXCEPT !.method = "find_missing_blobs", !.pc = "loop",
                                  !.blob_digests = digests, !.acked_before = acked]]
    /\ UNCHANGED <<store, uploaded, acked, callvars, trvars>>

\* one iteration of the loop of lines 91-96 in which the store answers
ConcFindMissingCheck(c) ==
    LET h == handlers[c]
    IN  /\ h.method = "find_missing_blobs"
        /\ h.pc = "loop"
        /\ h.idx <= Len(h.blob_digests)
        /\ LET digest == h.blob_digests[h.idx]
               args == HasArgs(digest)
               present == StoreHas(store, args.hash, args.size)
           IN  handlers' = [handlers EXCEPT ![c] =
                  [h EXCEPT !.store_calls =
                                Append(@, StoreCall("has", h.idx, args.hash, args.size,
                                                    <<>>, None, present)),
                            !.missing_blob_digests = PushIfMissing(@, digest, present),
                            !.idx = h.idx + 1]]
        /\ UNCHANGED <<store, uploaded, acked, callvars, trvars>>

\* one iteration of the loop of lines 91-96 in which the check fails
ConcFindMissingCheckFails(c) ==
    LET h == handlers[c]
    IN  /\ h.method = "find_missing_blobs"
        /\ h.pc = "loop"
        /\ h.idx <= Len(h.blob_digests)
        /\ \E failure \in ConcHasFailures :
             LET args == HasArgs(h.blob_digests[h.idx])
             IN  handlers' = [handlers EXCEPT ![c] =
                    [h EXCEPT !.store_calls =
                                  Append(@, StoreCall("has", h.idx, args.hash, args.size,
                                                      <<>>, failure, FALSE)),
                              !.rpc_result =
                                  ReturnOnHasError(Unwrap(failure), h.missing_blob_digests),
                              !.pc = "returned"]]
        /\ UNCHANGED <<store, uploaded, acked, callvars, trvars>>

ConcFindMissingReturn(c) ==
    LET h == handlers[c]
    IN  /\ h.method = "find_missing_blobs"
        /\ h.pc = "loop"
        /\ h.idx > Len(h.blob_digests)
        /\ handlers' = [handlers EXCEPT ![c] =
              [h EXCEPT !.pc = "returned",
                        !.rpc_result = FindMissingReturnValue(h.missing_blob_digests)]]
        /\ UNCHANGED <<store, uploaded, acked, callvars, trvars>>

\* the handler is gone; the client may call again
ConcRespond(c) ==
    /\ handlers[c].pc = "returned"
    /\ handlers' = [handlers EXCEPT ![c] = IdleHandler]
    /\ UNCHANGED <<store, uploaded, acked, callvars, trvars>>

ConcNext ==
    \E c \in Clients :
        \/ ConcBatchUpdateBlobsCall(c)
        \/ ConcBatchUpdateItem(c)
        \/ ConcBatchUpdateReturn(c)
        \/ ConcFindMissingBlobsCall(c)
        \/ ConcFindMissingCheck(c)
        \/ ConcFindMissingCheckFails(c)
        \/ ConcFindMissingReturn(c)
        \/ ConcRespond(c)

SpecConc == ConcInit /\ [][ConcNext]_vars

(* ================================================================ claims *)
\* What the contract asks of an upload item: the digest is there, its
\* size_bytes is a native size, and the payload has that many bytes.
DigestAbsent(request) == request.digest = None
SizeNotNative(request) ==
    request.digest # None /\ Unwrap(request.digest).size_bytes < 0
SizeMismatch(request) ==
    /\ request.digest # None
    /\ Unwrap(request.digest).size_bytes >= 0
    /\ Unwrap(request.digest).size_bytes # Len(request.data)
WellFormed(request) ==
    ~DigestAbsent(request) /\ ~SizeNotNative(request) /\ ~SizeMismatch(request)

\* the update calls the store received for the item at position i
UpdateCallsFor(i) ==
    SelectSeq(store_calls, LAMBDA c : c.op = "update" /\ c.item = i)

InBatchUpdate == method = "batch_update_blobs"
BatchUpdateReturned == method = "batch_update_blobs" /\ pc = "returned"
InFindMissing == method = "find_missing_blobs"
FindMissingReturned == method = "find_missing_blobs" /\ pc = "returned"

StatusOk(status) == status.code = 0
InvalidArgumentStatus(status) == status.code = 3

\* The record at position i is the one item i alone calls for: a rejected
\* item was never written and carries its own validation error, a
\* well-formed item was written once and carries the store's answer to
\* that write.
OwnOutcome(i) ==
    LET request == requests[i]
        calls == UpdateCallsFor(i)
    IN  IF WellFormed(request)
        THEN /\ Len(calls) = 1
             /\ calls[1].hash = Unwrap(request.digest).hash
             /\ calls[1].data = request.data
             /\ batch_response[i].status = result_to_status(calls[1].err)
        ELSE /\ Len(calls) = 0
             /\ ~StatusOk(batch_response[i].status)
             /\ batch_response[i].status = result_to_status(ValidationError(request))

\* C1: in BatchUpdateBlobs the status of record i is decided by item i and
\* by the store's answer to item i's own write, whatever happened to the
\* other items, and a failing item does not stop the loop: the returned call
\* has processed every item of the batch.
C1_ItemsIndependent ==
    InBatchUpdate =>
        /\ \A i \in 1..Len(batch_response) : OwnOutcome(i)
        /\ \A i, j \in 1..Len(batch_response) :
              (/\ requests[i] = requests[j]
               /\ WellFormed(requests[i])
               /\ UpdateCallsFor(i)[1].err = UpdateCallsFor(j)[1].err)
              => batch_response[i].status = batch_response[j].status
        /\ pc = "returned" => Len(batch_response) = Len(requests)

\* a returned batch whose first item failed and whose second item was
\* written and is ok
C1_Witness ==
    /\ BatchUpdateReturned
    /\ Len(requests) = 2
    /\ ~StatusOk(batch_response[1].status)
    /\ WellFormed(requests[2])
    /\ Len(UpdateCallsFor(2)) = 1
    /\ StatusOk(batch_response[2].status)

\* C2: the response of BatchUpdateBlobs holds one record per input item, in
\* input order, and record i echoes the digest item i supplied, ok or not.
C2_OneRecordPerItem ==
    /\ InBatchUpdate =>
          /\ Len(batch_response) <= Len(requests)
          /\ \A i \in 1..Len(batch_response) :
                batch_response[i].digest = requests[i].digest
    /\ BatchUpdateReturned =>
          /\ rpc_result.tag = "Ok"
          /\ Len(rpc_result.body.responses) = Len(requests)
          /\ \A i \in 1..Len(requests) :
                rpc_result.body.responses[i].digest = requests[i].digest

\* a returned batch of two with a failed item that supplied a digest
C2_Witness ==
    /\ BatchUpdateReturned
    /\ Len(requests) = 2
    /\ \E i \in 1..2 :
          /\ requests[i].digest # None
          /\ ~StatusOk(rpc_result.body.responses[i].status)
    /\ \E i \in 1..2 : StatusOk(rpc_result.body.responses[i].status)

\* C3: BatchUpdateBlobs returns Ok whatever the batch holds; a missing
\* digest, a bad size, a size mismatch or a failed write shows only as the
\* non-ok status of that item's record.
C3_NeverCallLevelFailure ==
    BatchUpdateReturned =>
        /\ rpc_result.tag = "Ok"
        /\ \A i \in 1..Len(requests) :
              LET failed == \/ ~WellFormed(requests[i])
                            \/ \E k \in 1..Len(store_calls) :
                                  /\ store_calls[k].op = "update"
                                  /\ store_calls[k].item = i
                                  /\ IsSome(store_calls[k].err)
              IN  failed <=> ~StatusOk(rpc_result.body.responses[i].status)

\* a returned batch holding a rejected item and an item whose write failed
C3_Witness ==
    /\ BatchUpdateReturned
    /\ \E i, j \in 1..Len(requests) :
          /\ ~WellFormed(requests[i])
          /\ WellFormed(requests[j])
          /\ IsSome(UpdateCallsFor(j)[1].err)

\* C4: an item whose payload length differs from the declared size_bytes
\* gets an InvalidArgument status, and the other items keep their own
\* outcome: a well-formed one is written and, when the store accepts it, is
\* ok with its blob in the store.
C4_SizeMismatchIsInvalidArgument ==
    InBatchUpdate =>
        \A i \in 1..Len(batch_response) :
            SizeMismatch(requests[i]) =>
                /\ InvalidArgumentStatus(batch_response[i].status)
                /\ \A j \in 1..Len(batch_response) :
                      (j # i /\ WellFormed(requests[j])) =>
                          /\ Len(UpdateCallsFor(j)) = 1
                          /\ StatusOk(batch_response[j].status)
                                <=> ~IsSome(UpdateCallsFor(j)[1].err)
                          /\ StatusOk(batch_response[j].status) =>
                                StoreHas(store, Unwrap(requests[j].digest).hash,
                                         Unwrap(requests[j].digest).size_bytes)

\* the batch of section 8: item 1 declares 5 bytes and carries 3, item 2 is
\* well-formed; record 1 is InvalidArgument, record 2 ok, the blob stored
C4_Witness ==
    /\ BatchUpdateReturned
    /\ Len(requests) = 2
    /\ requests[1].digest # None
    /\ Unwrap(requests[1].digest).size_bytes = 5
    /\ Len(requests[1].data) = 3
    /\ WellFormed(requests[2])
    /\ InvalidArgumentStatus(batch_response[1].status)
    /\ StatusOk(batch_response[2].status)
    /\ StoreHas(store, Unwrap(requests[2].digest).hash,
                Unwrap(requests[2].digest).size_bytes)

\* C5: an item that fails validation never reaches the Store: the step
\* that handles it issues no store call and leaves the store's contents as
\* they were, and every update call on record belongs to a well-formed item.
C5_ValidationFailuresSkipStore ==
    [][(/\ InBatchUpdate
        /\ pc = "loop"
        /\ idx <= Len(requests)
        /\ ~WellFormed(requests[idx]))
       => (/\ store' = store
           /\ store_calls' = store_calls
           /\ \A k \in 1..Len(store_calls') :
                 WellFormed(requests[store_calls'[k].item]))]_vars

\* a rejected item was handled after the store had taken another item
C5_Witness ==
    /\ InBatchUpdate
    /\ Len(batch_response) = 2
    /\ ~WellFormed(requests[2])
    /\ Len(store_calls) = 1
    /\ store # <<>>

\* C6: an item without a digest gets an InvalidArgument status and an
\* absent echoed digest, no store call is made for it, and the items before
\* and after it have their own outcome.
C6_MissingDigest ==
    InBatchUpdate =>
        /\ \A i \in 1..Len(batch_response) :
              DigestAbsent(requests[i]) =>
                  /\ batch_response[i].digest = None
                  /\ InvalidArgumentStatus(batch_response[i].status)
                  /\ Len(UpdateCallsFor(i)) = 0
                  /\ \A j \in 1..Len(batch_response) :
                        (j # i /\ WellFormed(requests[j])) =>
                            /\ Len(UpdateCallsFor(j)) = 1
                            /\ batch_response[j].status =
                                  result_to_status(UpdateCallsFor(j)[1].err)
        /\ (pc = "returned" /\ \E i \in 1..Len(requests) : DigestAbsent(requests[i]))
              => Len(batch_response) = Len(requests)

\* a batch of two whose first item was written and is ok and whose second
\* item has no digest and is rejected with an absent echoed digest
C6_Witness ==
    /\ BatchUpdateReturned
    /\ Len(requests) = 2
    /\ WellFormed(requests[1])
    /\ StatusOk(batch_response[1].status)
    /\ DigestAbsent(requests[2])
    /\ batch_response[2].digest = None
    /\ InvalidArgumentStatus(batch_response[2].status)

\* C7: FindMissingBlobs returns exactly the digests of its input for which
\* no successful store update was performed before; stated here by its
\* round-trip half: a digest (H, S) whose upload the store answered Ok is
\* not reported missing by a later FindMissingBlobs with the same H and S.
C7_UploadedIsNotMissing ==
    (FindMissingReturned /\ rpc_result.tag = "Ok") =>
        \A k \in 1..Len(rpc_result.body.missing_blob_digests) :
            LET d == rpc_result.body.missing_blob_digests[k]
            IN  StoreKey(d.hash, d.size_bytes) \notin uploaded

\* C8: every existence check of FindMissingBlobs is keyed by the digest's
\* (hash, size_bytes): the size passed to has is the declared size_bytes.
C8_HasKeyedBySizeBytes ==
    InFindMissing =>
        \A k \in 1..Len(store_calls) :
            store_calls[k].op = "has" =>
                /\ store_calls[k].hash = blob_digests[store_calls[k].item].hash
                /\ store_calls[k].size = blob_digests[store_calls[k].item].size_bytes

\* the digests at the positions 1..n of the input whose check answered absent
RECURSIVE AbsentPrefix(_)
AbsentPrefix(n) ==
    IF n = 0 THEN <<>>
    ELSE IF store_calls[n].present
         THEN AbsentPrefix(n - 1)
         ELSE Append(AbsentPrefix(n - 1), blob_digests[n])

NoCheckFailed == \A k \in 1..Len(store_calls) : ~IsSome(store_calls[k].err)

\* C9: when no check fails, the output of FindMissingBlobs is the
\* sub-sequence of the input digests whose check answered absent, in input
\* order, every occurrence of a repeated digest included.
C9_MissingIsAbsentSubsequence ==
    (InFindMissing /\ NoCheckFailed) =>
        /\ Len(store_calls) = idx - 1
        /\ \A k \in 1..Len(store_calls) : store_calls[k].item = k
        /\ missing_blob_digests = AbsentPrefix(Len(store_calls))
        /\ pc = "returned" =>
              /\ rpc_result.tag = "Ok"
              /\ Len(store_calls) = Len(blob_digests)
              /\ rpc_result.body.missing_blob_digests = AbsentPrefix(Len(blob_digests))

\* the same absent digest was asked for twice and is reported twice
C9_Witness ==
    /\ FindMissingReturned
    /\ Len(blob_digests) = 2
    /\ blob_digests[1] = blob_digests[2]
    /\ rpc_result.tag = "Ok"
    /\ rpc_result.body.missing_blob_digests = blob_digests

C11_TranslatorTotal ==
    tr_status # None =>
        LET made == Unwrap(tr_status)
        IN  /\ made.details = <<>>
            /\ tr_result = None => (made.code = 0 /\ made.message = <<>>)
            /\ tr_result # None => (made.code \in 1..16 /\ made.message # <<>>)

\* Ok(()) has been translated
C11_Witness ==
    /\ tr_result = None
    /\ tr_status # None
    /\ Unwrap(tr_status).code = 0

\* the code the table of the claim gives to a failure category
TableCode(kind) ==
    CASE kind = "NotFound" -> 5                        \* NotFound
      [] kind = "PermissionDenied" -> 7                \* PermissionDenied
      [] kind \in {"ConnectionRefused", "ConnectionReset",
                   "ConnectionAborted"} -> 14          \* Unavailable
      [] kind = "AlreadyExists" -> 6                   \* AlreadyExists
      [] kind \in {"InvalidInput", "InvalidData"} -> 3 \* InvalidArgument
      [] kind = "TimedOut" -> 4                        \* DeadlineExceeded
      [] kind = "Interrupted" -> 10                    \* Aborted
      [] OTHER -> 13                                   \* Internal

\* C16: the translator's table: not-found gives NotFound, permission-denied
\* PermissionDenied, connection refused / reset / aborted Unavailable,
\* already-exists AlreadyExists, invalid-input and invalid-data
\* InvalidArgument, timed-out DeadlineExceeded, interrupted Aborted, and
\* every other kind, named by the match or not, Internal.
C16_CategoryToCodeTable ==
    (tr_status # None /\ tr_result # None) =>
        Unwrap(tr_status).code = TableCode(Unwrap(tr_result).kind)

\* a kind the match does not name has been translated, to Internal
C16_Witness ==
    /\ tr_status # None
    /\ tr_result # None
    /\ Unwrap(tr_result).kind = "Unrecognised"
    /\ Unwrap(tr_status).code = 13

IsStub(m) == m \in {"batch_read_blobs", "get_tree"}

\* C12: BatchReadBlobs and GetTree fail with an Unimplemented status
\* whatever the request and the store hold; the call issues no store call,
\* leaves the store as it was, and GetTree returns the error, not a stream.
C12_StubsUnimplemented ==
    [][IsStub(method') =>
          /\ pc' = "returned"
          /\ rpc_result'.tag = "Err"
          /\ rpc_result'.body.code = <<"Unimplemented">>
          /\ rpc_result'.body.message[1] = method'
          /\ store_calls' = <<>>
          /\ store' = store
          /\ uploaded' = uploaded]_vars

\* GetTree was called with a root digest while the store held a blob
C12_Witness ==
    /\ method = "get_tree"
    /\ pc = "returned"
    /\ blob_digests # <<>>
    /\ store # <<>>
    /\ rpc_result.tag = "Err"

\* C13: FindMissingBlobs only reads the store: every store call it makes
\* is an existence check and no step of it changes the store's contents,
\* whether the call succeeds or fails; so the same digest list asked again
\* with no write in between gets the same missing list.
C13_FindMissingReadsOnly ==
    /\ [][InFindMissing =>
             /\ store' = store
             /\ uploaded' = uploaded
             /\ InFindMissing' =>
                   \A k \in 1..Len(store_calls') : store_calls'[k].op = "has"]_vars
    /\ []((FindMissingReturned /\ rpc_result.tag = "Ok" /\ prev_missing # None) =>
             rpc_result.body.missing_blob_digests = Unwrap(prev_missing))

\* a list with a missing digest was asked twice in a row and answered twice
C13_Witness ==
    /\ FindMissingReturned
    /\ rpc_result.tag = "Ok"
    /\ prev_missing # None
    /\ Len(blob_digests) = 2
    /\ Len(rpc_result.body.missing_blob_digests) = 1
    /\ store # <<>>

\* the update calls for item i that the store answered Ok
OkUpdateCallsFor(i) ==
    SelectSeq(UpdateCallsFor(i), LAMBDA c : ~IsSome(c.err))

\* C14: a record of BatchUpdateBlobs is ok if and only if its item had a
\* digest, a size_bytes that is a native size, a payload of that length,
\* and a store update that succeeded; an ok record stands for exactly one
\* update call, keyed by the item's (hash, size_bytes) and carrying its
\* whole payload, and an item failing validation for no update call.
C14_OkIffValidAndWritten ==
    InBatchUpdate =>
        \A i \in 1..Len(batch_response) :
            LET request == requests[i]
                ok == StatusOk(batch_response[i].status)
            IN  /\ ok <=> (WellFormed(request) /\ Len(OkUpdateCallsFor(i)) = 1)
                /\ ok =>
                      /\ Len(UpdateCallsFor(i)) = 1
                      /\ UpdateCallsFor(i)[1].hash = Unwrap(request.digest).hash
                      /\ UpdateCallsFor(i)[1].size = Unwrap(request.digest).size_bytes
                      /\ UpdateCallsFor(i)[1].data = request.data
                /\ ~WellFormed(request) => Len(UpdateCallsFor(i)) = 0

\* an ok record for a blob whose size_bytes is not the length of its hash,
\* next to a rejected item
C14_Witness ==
    /\ BatchUpdateReturned
    /\ Len(requests) = 2
    /\ StatusOk(batch_response[1].status)
    /\ Unwrap(requests[1].digest).size_bytes # Len(Unwrap(requests[1].digest).hash)
    /\ ~WellFormed(requests[2])
    /\ ~StatusOk(batch_response[2].status)

\* the text of the error of line 115
NotConvertable == <<"Digest size_bytes was not convertable to usize">>

\* C15: an item whose size_bytes is not a native unsigned size (a negative
\* value) is rejected for that item alone, whatever the length of its
\* payload: its status is not ok and carries the conversion error, not the
\* size mismatch one (the conversion is tried first), no store call is made
\* for it, and the other items keep their own outcome.
C15_SizeNotNativeRejected ==
    InBatchUpdate =>
        \A i \in 1..Len(batch_response) :
            SizeNotNative(requests[i]) =>
                /\ ~StatusOk(batch_response[i].status)
                /\ batch_response[i].status.message[3] = NotConvertable
                /\ Len(UpdateCallsFor(i)) = 0
                /\ \A j \in 1..Len(batch_response) :
                      (j # i /\ WellFormed(requests[j])) =>
                          /\ Len(UpdateCallsFor(j)) = 1
                          /\ StatusOk(batch_response[j].status)
                                <=> ~IsSome(UpdateCallsFor(j)[1].err)

\* two items with size_bytes -1 and payloads of different lengths, both
\* rejected, in a batch that has returned
C15_Witness ==
    /\ BatchUpdateReturned
    /\ Len(requests) = 2
    /\ SizeNotNative(requests[1])
    /\ SizeNotNative(requests[2])
    /\ Len(requests[1].data) # Len(requests[2].data)
    /\ ~StatusOk(batch_response[1].status)
    /\ ~StatusOk(batch_response[2].status)

\* C18: one BatchUpdateBlobs call handles its items one after another in
\* input order: a step issues at most one update, answered within the step
\* (none is left in flight when the next is issued); the update for item j
\* is issued when the records of the items 1..j-1, and no others, have been
\* appended; every well-formed item gets its update, so two items sharing
\* a hash are both written, the later item's update after the earlier one's.
C18_ItemsInInputOrder ==
    /\ [][(InBatchUpdate /\ store_calls' # store_calls /\ InBatchUpdate') =>
             /\ Len(store_calls') = Len(store_calls) + 1
             /\ SubSeq(store_calls', 1, Len(store_calls)) = store_calls
             /\ LET issued == store_calls'[Len(store_calls')]
                IN  /\ issued.op = "update"
                    /\ issued.item = Len(batch_response) + 1
                    /\ Len(batch_response') = issued.item]_vars
    /\ [](InBatchUpdate =>
             /\ \A i \in 1..Len(batch_response) :
                   WellFormed(requests[i]) => Len(UpdateCallsFor(i)) = 1
             /\ \A k, l \in 1..Len(store_calls) :
                   k < l => store_calls[k].item < store_calls[l].item)

\* two well-formed items with the same digest and different payloads: both
\* were written, the second after the first, and the store holds the second
C18_Witness ==
    /\ BatchUpdateReturned
    /\ Len(requests) = 2
    /\ requests[1].digest = requests[2].digest
    /\ requests[1].data # requests[2].data
    /\ Len(store_calls) = 2
    /\ store_calls[1].item = 1 /\ ~IsSome(store_calls[1].err)
    /\ store_calls[2].item = 2 /\ ~IsSome(store_calls[2].err)
    /\ store[StoreKey(store_calls[2].hash, store_calls[2].size)] = requests[2].data

\* C19: FindMissingBlobs asks the store about its digests one at a time in
\* input order and stops at the first check that fails: the failed check is
\* the last store call of the call, the digests after it are never asked
\* about, and the call returns the failure without the digests found
\* missing before it.
C19_StopsAtFirstFailure ==
    InFindMissing =>
        /\ \A k \in 1..Len(store_calls) :
              /\ store_calls[k].op = "has"
              /\ store_calls[k].item = k
              /\ store_calls[k].hash = blob_digests[k].hash
        /\ Len(store_calls) <= Len(blob_digests)
        /\ \A k \in 1..Len(store_calls) :
              IsSome(store_calls[k].err) =>
                  /\ k = Len(store_calls)
                  /\ idx = k
                  /\ pc = "returned"
                  /\ rpc_result.tag = "Err"
                  /\ "missing_blob_digests" \notin DOMAIN rpc_result.body

\* the check of the first of two digests failed: the call has returned and
\* the second digest was never asked about
C19_Witness ==
    /\ FindMissingReturned
    /\ Len(blob_digests) = 2
    /\ Len(store_calls) = 1
    /\ IsSome(store_calls[1].err)
    /\ rpc_result.tag = "Err"

\* the update calls client c's handler made for item i of its batch
ConcUpdateCallsFor(c, i) ==
    SelectSeq(handlers[c].store_calls, LAMBDA call : call.op = "update" /\ call.item = i)

\* every record client c's handler has pushed answers the item at its place
\* with that item's digest and that item's own outcome
ConcRecordsOwn(c) ==
    LET h == handlers[c]
    IN  h.method = "batch_update_blobs" =>
          /\ h.pc = "returned" =>
                /\ h.rpc_result.tag = "Ok"
                /\ Len(h.rpc_result.body.responses) = Len(h.requests)
                /\ h.rpc_result.body.responses = h.batch_response
          /\ \A i \in 1..Len(h.batch_response) :
                LET request == h.requests[i]
                    own == ConcUpdateCallsFor(c, i)
                IN  /\ h.batch_response[i].digest = request.digest
                    /\ IF WellFormed(request)
                       THEN /\ Len(own) = 1
                            /\ h.batch_response[i].status = result_to_status(own[1].err)
                       ELSE /\ Len(own) = 0
                            /\ h.batch_response[i].status =
                                   result_to_status(ValidationError(request))

\* a FindMissingBlobs call of client c that returned a list reports no
\* digest that had been answered ok to some client before the call started
ConcAckedNotMissing(c) ==
    LET h == handlers[c]
    IN  (/\ h.method = "find_missing_blobs"
         /\ h.pc = "returned"
         /\ h.rpc_result.tag = "Ok") =>
            \A k \in 1..Len(h.rpc_result.body.missing_blob_digests) :
                LET d == h.rpc_result.body.missing_blob_digests[k]
                IN  StoreKey(d.hash, d.size_bytes) \notin h.acked_before

\* C17: with BatchUpdateBlobs and FindMissingBlobs requests of several
\* clients interleaved on the one shared store, each upload batch returns one
\* record per item with that item's own outcome, and a FindMissingBlobs call
\* started after an ok BatchUpdateBlobs response for a digest was returned
\* does not report that digest as missing.
C17_ConcurrentRequests ==
    \A c \in DOMAIN handlers :
        /\ ConcRecordsOwn(c)
        /\ ConcAckedNotMissing(c)

\* the half of C17 the code keeps: records are the items' own in every interleaving
C17_RecordsOwnInEveryInterleaving ==
    \A c \in DOMAIN handlers : ConcRecordsOwn(c)

\* two handlers in their loops at once, one uploading and one looking up
C17_Interleaved ==
    \E c, d \in DOMAIN handlers :
        /\ handlers[c].method = "batch_update_blobs"
        /\ handlers[c].pc = "loop"
        /\ handlers[c].idx > 1
        /\ handlers[d].method = "find_missing_blobs"
        /\ handlers[d].pc = "loop"
        /\ handlers[d].idx > 1

====
